---- MODULE Spec2Model ----
(***************************************************************************)
(* tinydiff-core: the comment store (crates/tinydiff-core/src/comments.rs) *)
(* and its content anchoring.                                              *)
(*                                                                         *)
(* Strings are sequences of one-character strings, so that splitting into  *)
(* lines, joining a context window and scanning a path are computed the    *)
(* way the code computes them.  An Option<T> is a sequence of length 0     *)
(* (None) or 1 (Some(v)).                                                  *)
(***************************************************************************)
EXTENDS Integers, Sequences, FiniteSets, TLC

\* ------------------------------------------------------------------ bounds
\* Longest file text (in characters) drawn as an input of the anchoring.
MaxLen == 4
\* Largest 1-based line number a caller-supplied comment carries.
MaxLine == 2

\* ----------------------------------------------------------------- strings
NL == "\n"
CR == "\r"
Alphabet == {"a", NL, CR}

None == <<>>
Some(v) == <<v>>

RECURSIVE StrOfLen(_)
StrOfLen(n) ==
    IF n = 0 THEN {<<>>}
    ELSE {Append(s, c) : s \in StrOfLen(n - 1), c \in Alphabet}

StrUpTo(n) == UNION {StrOfLen(k) : k \in 0..n}

\* First position of ch in s, 0 when absent.
IndexOf(s, ch) ==
    IF \E i \in 1..Len(s) : s[i] = ch
    THEN CHOOSE i \in 1..Len(s) : s[i] = ch /\ \A j \in 1..(i - 1) : s[j] # ch
    ELSE 0

\* str::split_inclusive('\n'): pieces that keep their terminating newline.
RECURSIVE split_inclusive(_)
split_inclusive(s) ==
    IF s = <<>> THEN <<>>
    ELSE LET k == IndexOf(s, NL)
         IN IF k = 0 THEN <<s>>
            ELSE <<SubSeq(s, 1, k)>> \o split_inclusive(SubSeq(s, k + 1, Len(s)))

strip_suffix(s, ch) ==
    IF s # <<>> /\ s[Len(s)] = ch THEN Some(SubSeq(s, 1, Len(s) - 1)) ELSE None

\* The closure str::lines() maps over the pieces: drop one "\n", then one "\r".
LinesMap(piece) ==
    LET a == strip_suffix(piece, NL)
    IN IF a = None THEN piece
       ELSE LET b == strip_suffix(a[1], CR)
            IN IF b = None THEN a[1] ELSE b[1]

\* file_contents.lines().collect()
lines(s) ==
    LET pieces == split_inclusive(s)
    IN [i \in 1..Len(pieces) |-> LinesMap(pieces[i])]

\* slice.get(idx).copied().unwrap_or(""), idx zero-based
get_or_empty(ls, idx) == IF idx + 1 \in 1..Len(ls) THEN ls[idx + 1] ELSE <<>>

build_context_window(ls, line_idx) ==
    LET before == IF line_idx > 0 THEN get_or_empty(ls, line_idx - 1) ELSE <<>>
        target == get_or_empty(ls, line_idx)
        after == get_or_empty(ls, line_idx + 1)
    IN before \o <<NL>> \o target \o <<NL>> \o after

saturating_sub(a, b) == IF a >= b THEN a - b ELSE 0

extract_context_window_off_by_one(file_contents, line_number) ==
    build_context_window(lines(file_contents), line_number)

extract_context_window(file_contents, line_number) ==
    build_context_window(lines(file_contents), saturating_sub(line_number, 1))

\* The loop of re_anchor_comment: the first zero-based idx, from `idx` on, whose
\* window equals the stored context; -1 when the loop runs out.
RECURSIVE scan_windows_last(_, _, _)
scan_windows_last(ls, stored_context, idx) ==
    IF idx >= Len(ls) THEN -1
    ELSE LET later == scan_windows_last(ls, stored_context, idx + 1)
         IN IF later >= 0 THEN later
            ELSE IF build_context_window(ls, idx) = stored_context THEN idx ELSE -1

RECURSIVE scan_windows(_, _, _)
scan_windows(ls, stored_context, idx) ==
    IF idx >= Len(ls) THEN -1
    ELSE IF build_context_window(ls, idx) = stored_context THEN idx
    ELSE scan_windows(ls, stored_context, idx + 1)

re_anchor_loses_line(comment, file_contents) ==
    IF comment.context_window = None THEN comment
    ELSE LET idx == scan_windows(lines(file_contents), comment.context_window[1], 0)
         IN IF idx >= 0
            THEN [comment EXCEPT !.line_number = idx + 1, !.unanchored = FALSE]
            ELSE [comment EXCEPT !.line_number = 0, !.unanchored = TRUE]

re_anchor_scans_pinned(comment, file_contents) ==
    LET stored == IF comment.context_window = None THEN <<>> ELSE comment.context_window[1]
        idx == scan_windows(lines(file_contents), stored, 0)
    IN IF idx >= 0
       THEN [comment EXCEPT !.line_number = idx + 1, !.unanchored = FALSE]
       ELSE [comment EXCEPT !.unanchored = TRUE]

re_anchor_orphan_is_terminal(comment, file_contents) ==
    IF comment.context_window = None \/ comment.unanchored THEN comment
    ELSE LET idx == scan_windows(lines(file_contents), comment.context_window[1], 0)
         IN IF idx >= 0
            THEN [comment EXCEPT !.line_number = idx + 1, !.unanchored = FALSE]
            ELSE [comment EXCEPT !.unanchored = TRUE]

re_anchor_zero_based(comment, file_contents) ==
    IF comment.context_window = None THEN comment
    ELSE LET idx == scan_windows(lines(file_contents), comment.context_window[1], 0)
         IN IF idx >= 0
            THEN [comment EXCEPT !.line_number = idx, !.unanchored = FALSE]
            ELSE [comment EXCEPT !.unanchored = TRUE]

re_anchor_comment(comment, file_contents) ==
    IF comment.context_window = None THEN comment
    ELSE LET idx == scan_windows(lines(file_contents), comment.context_window[1], 0)
         IN IF idx >= 0
            THEN [comment EXCEPT !.line_number = idx + 1, !.unanchored = FALSE]
            ELSE [comment EXCEPT !.unanchored = TRUE]

\* ------------------------------------------------------------ input domains
Texts == StrUpTo(MaxLen)

\* Context windows a stored comment may carry: every window of every text
\* (also past its end), and a string that is no window at all.
Windows ==
    {build_context_window(lines(t), i) :
        t \in StrUpTo(MaxLen - 1), i \in 0..(MaxLen - 1)} \cup {<<"a">>}

AnchorComments ==
    [id : {"c1"}, file_path : {<<"a">>}, body : {"x"},
     line_number : 0..MaxLine,
     context_window : {None} \cup {Some(w) : w \in Windows},
     unanchored : BOOLEAN]

\* ------------------------------------------------------------- path guard
\* str::contains(".."): two consecutive dots anywhere in the string.
contains_dotdot(path) ==
    \E i \in 1..(Len(path) - 1) : path[i] = "." /\ path[i + 1] = "."

\* Path::is_absolute() on a Unix target: the path starts at the root.
is_absolute(path) == path # <<>> /\ path[1] = "/"

InvalidPath == [ok |-> FALSE, variant |-> "InvalidPath", kind |-> "none"]
IoError(k) == [ok |-> FALSE, variant |-> "Io", kind |-> k]
Ok(v) == [ok |-> TRUE, val |-> v]
\* The values of Ok: (), a bool, a collection's comments.
Unit == [unit |-> TRUE]
Bool(b) == [bool |-> b]
Comments(cs) == [comments |-> cs]

validate_absolute_only(file_path) ==
    IF is_absolute(file_path) THEN InvalidPath ELSE Ok(Unit)

validate_file_path(file_path) ==
    IF contains_dotdot(file_path) \/ is_absolute(file_path)
    THEN InvalidPath
    ELSE Ok(Unit)

\* ------------------------------------------------------------ file contents
\* The bytes of a file are a sequence of tokens: an opening token, one token
\* per comment, a closing token.  A write cut short leaves a proper prefix,
\* which never parses; so does a file written by something else ("junk").
TokOpen == [t |-> "open"]
TokClose == [t |-> "close"]
TokJunk == [t |-> "junk"]
TokComment(c) == [t |-> "comment", c |-> c]

\* serde_json::to_string_pretty(collection)
to_string_pretty(comments) ==
    <<TokOpen>> \o [i \in 1..Len(comments) |-> TokComment(comments[i])] \o <<TokClose>>

\* serde_json::from_str::<CommentCollection>(contents): Some(comments) or None.
from_str(contents) ==
    IF /\ Len(contents) >= 2
       /\ contents[1] = TokOpen
       /\ contents[Len(contents)] = TokClose
       /\ \A i \in 2..(Len(contents) - 1) : contents[i].t = "comment"
    THEN Some([i \in 1..(Len(contents) - 2) |-> contents[i + 1].c])
    ELSE None

comments_file_path == "comments.json"
lock_path == "comments.lock"
temp_path_in_place == "comments.json"
temp_path == "comments.json.tmp"
FileNames == {"comments.json", "comments.json.tmp", "comments.lock"}

\* ------------------------------------------------- the handlers' local steps
\* save_comment, lines 78-83: the anchor is computed only from file contents.
prepare_comment(comment, file_contents) ==
    IF file_contents # None /\ comment.line_number > 0
    THEN [comment EXCEPT
            !.context_window = Some(extract_context_window(file_contents[1], comment.line_number)),
            !.unanchored = FALSE]
    ELSE comment

\* Position of the first entry with this id, 0 when there is none.
find_id(comments, id) ==
    IF \E i \in 1..Len(comments) : comments[i].id = id
    THEN CHOOSE i \in 1..Len(comments) :
            comments[i].id = id /\ \A j \in 1..(i - 1) : comments[j].id # id
    ELSE 0

upsert_always_push(comments, comment) == Append(comments, comment)

\* save_comment, lines 96-100: replace the first entry with the id, or push.
upsert(comments, comment) ==
    LET i == find_id(comments, comment.id)
    IN IF i > 0 THEN [comments EXCEPT ![i] = comment] ELSE Append(comments, comment)

\* collection.comments.retain(|c| c.id != comment_id)
RECURSIVE retain(_, _)
retain_drops_head(comments, comment_id) ==
    IF comments = <<>> THEN <<>> ELSE retain(Tail(comments), comment_id)

retain(comments, comment_id) ==
    IF comments = <<>> THEN <<>>
    ELSE IF comments[1].id # comment_id
         THEN <<comments[1]>> \o retain(Tail(comments), comment_id)
         ELSE retain(Tail(comments), comment_id)

IsPrefix(a, b) == Len(a) <= Len(b) /\ SubSeq(b, 1, Len(a)) = a

RECURSIVE filter_path_prefix(_, _)
filter_path_prefix(comments, file_path) ==
    IF comments = <<>> THEN <<>>
    ELSE IF IsPrefix(file_path, comments[1].file_path)
         THEN <<comments[1]>> \o filter_path_prefix(Tail(comments), file_path)
         ELSE filter_path_prefix(Tail(comments), file_path)

RECURSIVE filter_path(_, _)
filter_path(comments, file_path) ==
    IF comments = <<>> THEN <<>>
    ELSE IF comments[1].file_path = file_path
         THEN <<comments[1]>> \o filter_path(Tail(comments), file_path)
         ELSE filter_path(Tail(comments), file_path)

\* get_comments_for_file, lines 164-174, on a loaded collection.
comments_for_file(comments, file_path, file_contents) ==
    LET result == filter_path(comments, file_path)
    IN [i \in 1..Len(result) |-> re_anchor_comment(result[i], file_contents)]

\* ------------------------------------------------------------- store inputs
\* Calls started in one run, over all processes.
MaxCalls == 2

\* Two processes call into the store of one repository.
Procs == {1, 2}
Ids == {"c1", "c2"}
Bodies == {"x", "y"}
GoodPath == <<"a">>
BadPaths == {<<".", ".", "/", "a">>, <<"/", "a">>}

Cmt(id, path, body, line, ctx, un) ==
    [id |-> id, file_path |-> path, body |-> body, line_number |-> line,
     context_window |-> ctx, unanchored |-> un]

\* The save_comment calls of the store's runs: a comment and the file contents.
SaveInputs ==
    {<<Cmt("c1", GoodPath, b, 1, None, FALSE), None>> : b \in Bodies}
    \cup {<<Cmt("c2", GoodPath, "x", 1, None, TRUE), Some(<<"a">>)>>}
    \cup {<<Cmt("c1", bp, "x", 1, None, FALSE), None>> : bp \in BadPaths}

\* What the repository holds before the first call: no .tinydiff directory, an
\* empty one, a comment file that is not a collection, an empty collection, a
\* collection of one comment.
InitialDisks ==
    {[dir |-> FALSE, file |-> None],
     [dir |-> TRUE, file |-> None],
     [dir |-> TRUE, file |-> Some(<<TokJunk>>)],
     [dir |-> TRUE, file |-> Some(to_string_pretty(<<>>))],
     [dir |-> TRUE,
      file |-> Some(to_string_pretty(<<Cmt("c2", GoodPath, "y", 2, None, FALSE)>>))]}

\* The save_comment calls of the one-call runs: every anchor state a caller
\* may supply, with and without every file text.
RichComments ==
    [id : {"c1"}, file_path : {GoodPath}, body : {"x"},
     line_number : 0..MaxLine,
     context_window : {None, Some(<<"a">>), Some(<<NL, "a", NL>>)},
     unanchored : BOOLEAN]

RichContents == {None} \cup {Some(t) : t \in Texts}

NoCall == [op |-> "none"]
NoReturn == [proc |-> 0]

VARIABLES
    dir,        \* whether <repo>/.tinydiff exists
    fs,         \* the files of .tinydiff: name -> None (absent) or Some(bytes)
    lock,       \* the process holding the exclusive lock on comments.lock, or 0
    pc,         \* each process's position in its current call
    call,       \* each process's current call and arguments (for a save: the
                \* comment being built, and history: the comment as supplied)
    coll,       \* each writer's collection, loaded and modified
    budget,     \* calls that may still be started
    ret,        \* the call that returned last: who, what, its result, and
                \* history: whether it reached the filesystem and whether it
                \* changed comments.json
    file0,      \* history: comments.json as it was before the first call
    latest,     \* history: id -> body of its last committed save, None once deleted
    serial,     \* history: the committed calls applied one after another
    commits,    \* history: number of committed calls
    wrote,      \* history: the current call changed comments.json
    touched,    \* history: the current call reached the filesystem
    cmt, txt, prev, applied,
    qcall,      \* the diff or contents query in progress, and its arguments
    qpc,        \* its position
    qret,       \* what it returned
    qio,        \* history: what the query has reached (the repository, the
                \* filesystem)
    delta,      \* the delta the diff engine is printing
    cur_hunk,   \* the hunk header the engine's lines currently come with
    fed,        \* callbacks made so far
    hunks, is_binary, actual_path, old_path,   \* the callback's captured cells
    arrived,    \* history: per output hunk, per line, the header and origin
                \* the line came with
    stream,     \* history: the callbacks made, in order
    file_diff,  \* the FileDiff returned
    entry,      \* the status entry the loop is at
    taken,      \* entries the loop has finished with
    staged, unstaged, untracked,    \* the loop's three lists
    git_status, \* the GitStatus returned
    track       \* the text a comment was saved against and the edit made to it

svars == <<dir, fs, lock, pc, call, coll, budget, ret, file0, latest, serial,
           commits, wrote, touched>>
qvars == <<qcall, qpc, qret, qio>>
dvars == <<delta, cur_hunk, fed, hunks, is_binary, actual_path, old_path, arrived,
           stream, file_diff>>
tvars == <<entry, taken, staged, unstaged, untracked, git_status>>
gvars == <<qvars, dvars, tvars, track>>
avars == <<cmt, txt, prev, applied, gvars>>
vars == <<dir, fs, lock, pc, call, coll, budget, ret, file0, latest, serial,
          commits, wrote, touched, cmt, txt, prev, applied,
          qcall, qpc, qret, qio,
          delta, cur_hunk, fed, hunks, is_binary, actual_path, old_path, arrived,
          stream, file_diff,
          entry, taken, staged, unstaged, untracked, git_status, track>>

NoDelta == [binary |-> FALSE, new_file |-> None, old_file |-> None]
NoEntry == [path |-> None, status |-> {}, head_to_index |-> None,
            index_to_workdir |-> None]

IdleQuery ==
    /\ qcall = NoCall /\ qpc = "idle" /\ qret = NoReturn /\ qio = {}

IdleDiff ==
    /\ delta = NoDelta /\ cur_hunk = None /\ fed = 0
    /\ hunks = <<>> /\ is_binary = FALSE
    /\ actual_path = <<>> /\ old_path = None
    /\ arrived = <<>> /\ stream = <<>> /\ file_diff = None

IdleStatus ==
    /\ entry = NoEntry /\ taken = 0
    /\ staged = <<>> /\ unstaged = <<>> /\ untracked = <<>>
    /\ git_status = None

NoTrack == [stage |-> "none"]
IdleTrack == track = NoTrack

IdleGit == IdleQuery /\ IdleDiff /\ IdleStatus /\ IdleTrack

IdleAnchor ==
    /\ cmt = Cmt("c1", GoodPath, "x", 1, None, FALSE)
    /\ txt = <<>>
    /\ prev = cmt
    /\ applied = FALSE

InitStore(disks) ==
    /\ \E d \in disks :
        /\ dir = d.dir
        /\ fs = [n \in FileNames |-> IF n = comments_file_path THEN d.file ELSE None]
        /\ file0 = d.file
        /\ serial = IF d.file # None /\ from_str(d.file[1]) # None
                    THEN from_str(d.file[1])[1] ELSE <<>>
    /\ lock = 0
    /\ pc = [p \in Procs |-> "idle"]
    /\ call = [p \in Procs |-> NoCall]
    /\ coll = [p \in Procs |-> <<>>]
    /\ ret = NoReturn
    /\ latest = [i \in Ids |-> None]
    /\ commits = 0
    /\ wrote = [p \in Procs |-> FALSE]
    /\ touched = [p \in Procs |-> FALSE]

Init ==
    /\ InitStore(InitialDisks)
    /\ budget = MaxCalls
    /\ IdleAnchor
    /\ IdleGit

\* ------------------------------------------------------------------- steps
\* Each step states its effect on the files first, then the histories, then
\* where the call goes on.
Touch(p) == touched' = [touched EXCEPT ![p] = TRUE]
Wrote(p) ==
    wrote' = [wrote EXCEPT ![p] = @ \/ fs'[comments_file_path] # fs[comments_file_path]]

return_keeps_lock(p, r) ==
    /\ pc' = [pc EXCEPT ![p] = "idle"]
    /\ ret' = [proc |-> p, call |-> call[p], result |-> r,
               touched |-> touched'[p], wrote |-> wrote'[p]]
    /\ call' = [call EXCEPT ![p] = NoCall]
    /\ UNCHANGED lock
    /\ coll' = [coll EXCEPT ![p] = <<>>]

\* A return: the lock file handle is dropped, which releases the lock.
Return(p, r) ==
    /\ pc' = [pc EXCEPT ![p] = "idle"]
    /\ ret' = [proc |-> p, call |-> call[p], result |-> r,
               touched |-> touched'[p], wrote |-> wrote'[p]]
    /\ call' = [call EXCEPT ![p] = NoCall]
    /\ lock' = IF lock = p THEN 0 ELSE lock
    /\ coll' = [coll EXCEPT ![p] = <<>>]

Goto(p, label) ==
    /\ pc' = [pc EXCEPT ![p] = label]
    /\ UNCHANGED <<ret, call, lock, coll>>

GotoWith(p, label, comments) ==
    /\ pc' = [pc EXCEPT ![p] = label]
    /\ coll' = [coll EXCEPT ![p] = comments]
    /\ UNCHANGED <<ret, call, lock>>

CanBegin(p) == budget > 0 /\ pc[p] = "idle"

Begin(p, c, label) ==
    /\ budget' = budget - 1
    /\ call' = [call EXCEPT ![p] = c]
    /\ pc' = [pc EXCEPT ![p] = label]
    /\ wrote' = [wrote EXCEPT ![p] = FALSE]
    /\ touched' = [touched EXCEPT ![p] = FALSE]
    /\ UNCHANGED <<dir, fs, lock, coll, ret, file0, latest, serial, commits, avars>>

StartSave(p) ==
    /\ CanBegin(p)
    /\ \E in \in SaveInputs :
          Begin(p, [op |-> "save", comment |-> in[1], file_contents |-> in[2],
                    supplied |-> in[1]], "save_validate")

StartDelete(p) ==
    /\ CanBegin(p)
    /\ \E id \in Ids : Begin(p, [op |-> "delete", comment_id |-> id], "dir_exists")

StartGet(p) ==
    /\ CanBegin(p)
    /\ \E fp \in {GoodPath, <<"/", "a">>} :
          Begin(p, [op |-> "get", file_path |-> fp, file_contents |-> <<"a">>],
                "get_validate")

\* save_comment, lines 76-83
SaveValidate(p) ==
    /\ pc[p] = "save_validate"
    /\ UNCHANGED <<dir, fs, wrote, touched>>
    /\ LET v == validate_file_path(call[p].comment.file_path)
       IN IF ~v.ok
          THEN Return(p, v)
          ELSE /\ call' = [call EXCEPT ![p].comment =
                              prepare_comment(@, call[p].file_contents)]
               /\ pc' = [pc EXCEPT ![p] = "mkdir"]
               /\ UNCHANGED <<ret, lock, coll>>
    /\ UNCHANGED <<budget, file0, latest, serial, commits, avars>>

\* get_comments_for_file, line 162
GetValidate(p) ==
    /\ pc[p] = "get_validate"
    /\ UNCHANGED <<dir, fs, wrote, touched>>
    /\ LET v == validate_file_path(call[p].file_path)
       IN IF ~v.ok THEN Return(p, v) ELSE Goto(p, "load_exists")
    /\ UNCHANGED <<budget, file0, latest, serial, commits, avars>>

\* save_comment, lines 85-86: fs::create_dir_all
Mkdir(p) ==
    /\ pc[p] = "mkdir"
    /\ Touch(p)
    /\ UNCHANGED <<fs, wrote>>
    /\ \/ dir' = TRUE /\ Goto(p, "lock_create")
       \/ UNCHANGED dir /\ Return(p, IoError("other"))
    /\ UNCHANGED <<budget, file0, latest, serial, commits, avars>>

\* delete_comment, lines 108-111
DirExists(p) ==
    /\ pc[p] = "dir_exists"
    /\ Touch(p)
    /\ UNCHANGED <<dir, fs, wrote>>
    /\ IF ~dir THEN Return(p, Ok(Bool(FALSE))) ELSE Goto(p, "lock_create")
    /\ UNCHANGED <<budget, file0, latest, serial, commits, avars>>

\* File::create(&lock_path)
LockCreate(p) ==
    /\ pc[p] = "lock_create"
    /\ Touch(p)
    /\ UNCHANGED <<dir, wrote>>
    /\ \/ /\ dir
          /\ fs' = [fs EXCEPT ![lock_path] = Some(<<>>)]
          /\ Goto(p, "lock")
       \/ UNCHANGED fs /\ Return(p, IoError("other"))
    /\ UNCHANGED <<budget, file0, latest, serial, commits, avars>>

lock_never_waits(p) == TRUE

\* lock_exclusive() blocks for as long as another handle holds the lock.
lock_available(p) == lock = 0

LockExclusive(p) ==
    /\ pc[p] = "lock"
    /\ Touch(p)
    /\ UNCHANGED <<dir, fs, wrote>>
    /\ \/ /\ lock_available(p)
          /\ lock' = p
          /\ pc' = [pc EXCEPT ![p] = "load_exists"]
          /\ UNCHANGED <<ret, call, coll>>
       \/ Return(p, IoError("other"))
    /\ UNCHANGED <<budget, file0, latest, serial, commits, avars>>

\* What each handler does with the collection load_comments returned.
AfterLoad(p, comments) ==
    IF call[p].op = "save"
    THEN GotoWith(p, "tmp_create", upsert(comments, call[p].comment))
    ELSE IF call[p].op = "delete"
    THEN LET kept == retain(comments, call[p].comment_id)
         IN IF comments = <<>> \/ Len(kept) = Len(comments)
            THEN Return(p, Ok(Bool(FALSE)))
            ELSE GotoWith(p, "tmp_create", kept)
    ELSE IF call[p].op = "get"
    THEN Return(p, Ok(Comments(comments_for_file(comments, call[p].file_path,
                                                 call[p].file_contents))))
    ELSE Return(p, Ok(Comments(comments)))

load_skips_exists_check(p) ==
    /\ pc[p] = "load_exists"
    /\ Touch(p)
    /\ UNCHANGED <<dir, fs, wrote>>
    /\ Goto(p, "load_read")
    /\ UNCHANGED <<budget, file0, latest, serial, commits, avars>>

\* load_comments, lines 58-61: path.exists()
LoadExists(p) ==
    /\ pc[p] = "load_exists"
    /\ Touch(p)
    /\ UNCHANGED <<dir, fs, wrote>>
    /\ IF fs[comments_file_path] = None
       THEN AfterLoad(p, <<>>)
       ELSE Goto(p, "load_read")
    /\ UNCHANGED <<budget, file0, latest, serial, commits, avars>>

parse_error_as_empty(contents) ==
    IF from_str(contents) = None THEN Some(<<>>) ELSE from_str(contents)

\* load_comments, lines 63-68
parse_collection(contents) == from_str(contents)

\* load_comments, lines 62-68: fs::read_to_string, serde_json::from_str
LoadRead(p) ==
    /\ pc[p] = "load_read"
    /\ Touch(p)
    /\ UNCHANGED <<dir, fs, wrote>>
    /\ \/ /\ fs[comments_file_path] # None
          /\ LET parsed == parse_collection(fs[comments_file_path][1])
             IN IF parsed = None
                THEN Return(p, IoError("InvalidData"))
                ELSE AfterLoad(p, parsed[1])
       \/ Return(p, IoError("other"))
    /\ UNCHANGED <<budget, file0, latest, serial, commits, avars>>

\* write_collection, line 48: fs::write opens the file, truncating it ...
TmpCreate(p) ==
    /\ pc[p] = "tmp_create"
    /\ \/ /\ fs' = [fs EXCEPT ![temp_path] = Some(<<>>)]
          /\ Wrote(p) /\ Touch(p)
          /\ Goto(p, "tmp_write")
       \/ /\ UNCHANGED fs
          /\ Wrote(p) /\ Touch(p)
          /\ Return(p, IoError("other"))
    /\ UNCHANGED <<dir, budget, file0, latest, serial, commits, avars>>

\* ... and writes the bytes; a failing write leaves a prefix of them.
TmpWrite(p) ==
    /\ pc[p] = "tmp_write"
    /\ LET contents == to_string_pretty(coll[p])
       IN \/ /\ fs' = [fs EXCEPT ![temp_path] = Some(contents)]
             /\ Wrote(p) /\ Touch(p)
             /\ Goto(p, "rename")
          \/ \E k \in 0..(Len(contents) - 1) :
                /\ fs' = [fs EXCEPT ![temp_path] = Some(SubSeq(contents, 1, k))]
                /\ Wrote(p) /\ Touch(p)
                /\ Return(p, IoError("other"))
    /\ UNCHANGED <<dir, budget, file0, latest, serial, commits, avars>>

\* The call's effect on the histories, at the rename that commits it.
Commit(p) ==
    /\ commits' = commits + 1
    /\ IF call[p].op = "save"
       THEN /\ latest' = [latest EXCEPT
                            ![call[p].comment.id] = Some(call[p].comment.body)]
            /\ serial' = upsert(serial, call[p].comment)
       ELSE /\ latest' = [latest EXCEPT ![call[p].comment_id] = None]
            /\ serial' = retain(serial, call[p].comment_id)

\* write_collection, lines 49-54: fs::rename(&temp_path, &file_path)
Rename(p) ==
    /\ pc[p] = "rename"
    /\ \/ /\ fs[temp_path] # None
          /\ fs' = [fs EXCEPT ![temp_path] = None,
                              ![comments_file_path] = fs[temp_path]]
          /\ Wrote(p) /\ Touch(p)
          /\ Return(p, Ok(IF call[p].op = "save" THEN Unit ELSE Bool(TRUE)))
          /\ Commit(p)
       \/ /\ UNCHANGED <<fs, latest, serial, commits>>
          /\ Wrote(p) /\ Touch(p)
          /\ Goto(p, "rm_tmp")
    /\ UNCHANGED <<dir, budget, file0, avars>>

\* write_collection, lines 50-51: the temporary file is removed (a failure of
\* the removal is ignored) and the rename's error returned.
RmTmp(p) ==
    /\ pc[p] = "rm_tmp"
    /\ \/ fs' = [fs EXCEPT ![temp_path] = None]
       \/ UNCHANGED fs
    /\ Wrote(p) /\ Touch(p)
    /\ Return(p, IoError("other"))
    /\ UNCHANGED <<dir, budget, file0, latest, serial, commits, avars>>

\* The process dies; the operating system closes its files, which releases the
\* lock.  A process that dies while writing leaves a prefix of the bytes.
Crash(p) ==
    /\ pc[p] \notin {"idle", "crashed"}
    /\ pc' = [pc EXCEPT ![p] = "crashed"]
    /\ lock' = IF lock = p THEN 0 ELSE lock
    /\ IF pc[p] = "tmp_write"
       THEN \E k \in 0..(Len(to_string_pretty(coll[p])) - 1) :
               fs' = [fs EXCEPT ![temp_path] = Some(SubSeq(to_string_pretty(coll[p]), 1, k))]
       ELSE UNCHANGED fs
    /\ call' = [call EXCEPT ![p] = NoCall]
    /\ coll' = [coll EXCEPT ![p] = <<>>]
    /\ wrote' = [wrote EXCEPT ![p] = FALSE]
    /\ touched' = [touched EXCEPT ![p] = FALSE]
    /\ UNCHANGED <<dir, budget, ret, file0, latest, serial, commits, avars>>

Next ==
    \E p \in Procs :
        \/ StartSave(p) \/ StartDelete(p) \/ StartGet(p)
        \/ SaveValidate(p) \/ GetValidate(p)
        \/ Mkdir(p) \/ DirExists(p) \/ LockCreate(p) \/ LockExclusive(p)
        \/ LoadExists(p) \/ LoadRead(p)
        \/ TmpCreate(p) \/ TmpWrite(p) \/ Rename(p) \/ RmTmp(p)
        \/ Crash(p)

Spec == Init /\ [][Next]_vars

\* ------------------------------------------------------ claims on the store
CanonicalFile == fs[comments_file_path]
Returned(op) == ret.proc # 0 /\ ret.call.op = op
Succeeded(op) == Returned(op) /\ ret.result.ok
Failed(op) == Returned(op) /\ ~ret.result.ok
NoCrash == \A p \in Procs : pc[p] # "crashed"
IsComplete(contents) ==
    from_str(contents) # None /\ to_string_pretty(from_str(contents)[1]) = contents
Malformed(file) == file # None /\ from_str(file[1]) = None

\* What a load of the repository yields: an absent file is the empty
\* collection, a file that does not parse is None.
Persisted == IF CanonicalFile = None THEN Some(<<>>) ELSE from_str(CanonicalFile[1])
EntriesOf(comments, id) == {i \in 1..Len(comments) : comments[i].id = id}

\* C1: starting with no comment file, whenever a save_comment or
\* delete_comment has returned successfully the file loads as a collection
\* that holds exactly one entry for every id saved and not deleted since, with
\* the body of its latest save, and no entry for any other id.  (A call counts
\* from the rename that commits it; runs in which a process died are left
\* out.)
C1_OneEntryPerLiveId ==
    (file0 = None /\ NoCrash /\ (Succeeded("save") \/ Succeeded("delete"))) =>
        /\ Persisted # None
        /\ \A i \in 1..Len(Persisted[1]) : Persisted[1][i].id \in Ids
        /\ \A id \in Ids :
              IF latest[id] = None
              THEN EntriesOf(Persisted[1], id) = {}
              ELSE /\ Cardinality(EntriesOf(Persisted[1], id)) = 1
                   /\ \A i \in EntriesOf(Persisted[1], id) :
                         Persisted[1][i].body = latest[id][1]

\* C1 witness: the second of two committed calls, a save of c1 with body "y",
\* has returned, and the file holds one entry: c1 was saved twice.
C1_Witness ==
    /\ file0 = None /\ NoCrash
    /\ Succeeded("save")
    /\ ret.call.comment.id = "c1" /\ ret.call.comment.body = "y"
    /\ commits = 2
    /\ latest["c1"] = Some("y")
    /\ Persisted # None /\ Len(Persisted[1]) = 1

\* C2: calls of concurrent processes take effect one at a time: whenever the
\* file loads, it is the collection obtained by applying the committed calls
\* one after another in the order of their commits, and every id whose last
\* committed call is a save is in it (no lost update).
C2_SerialOrder ==
    ~Malformed(file0) =>
        /\ Persisted = Some(serial)
        /\ \A id \in Ids : latest[id] # None => EntriesOf(Persisted[1], id) # {}

\* C2 witness: a save of one id waits for the lock while a save of another id
\* holds it with its collection written to the temporary file.
C2_Witness ==
    \E p, q \in Procs :
        /\ pc[p] = "lock" /\ lock = q /\ pc[q] = "rename"
        /\ call[p].op = "save" /\ call[q].op = "save"
        /\ call[p].comment.id # call[q].comment.id

\* C3: at every instant comments.json is as it was before the first call or
\* holds the complete serialization of a collection, and is never removed; a
\* reader without the lock never fails to parse a file that a writer of this
\* store produced.
C3_CanonicalNeverPartial ==
    /\ CanonicalFile = file0 \/ (CanonicalFile # None /\ IsComplete(CanonicalFile[1]))
    /\ (Failed("get") /\ ret.result.kind = "InvalidData") => Malformed(file0)

\* C3 witness: a writer died leaving a cut-short temporary file, and a reader
\* got the comments of the complete canonical file.
C3_Witness ==
    \E p \in Procs :
        /\ pc[p] = "crashed"
        /\ fs[temp_path] # None /\ Len(fs[temp_path][1]) >= 1
        /\ ~IsComplete(fs[temp_path][1])
        /\ Succeeded("get") /\ Len(ret.result.val.comments) = 1
        /\ CanonicalFile # None /\ IsComplete(CanonicalFile[1])

\* C4: a save_comment or delete_comment that returns an error has not changed
\* comments.json; a malformed comments.json makes every save_comment fail and
\* is never overwritten.
C4_ErrorLeavesFile ==
    /\ (Failed("save") \/ Failed("delete")) => ~ret.wrote
    /\ Malformed(file0) =>
          /\ CanonicalFile = file0
          /\ Returned("save") => ~ret.result.ok

\* C4 witness: a save against a malformed file failed at the parse, the file
\* is still the malformed one.
C4_Witness ==
    /\ Failed("save")
    /\ ret.result = IoError("InvalidData")
    /\ CanonicalFile = Some(<<TokJunk>>)

\* C12: a delete_comment whose id matches no stored entry (the .tinydiff
\* directory absent, the file absent, the collection empty or holding only
\* other ids) returns Ok(false), or the error of a failing filesystem call, and
\* never Ok(true); the step that returns leaves comments.json as it is, and the
\* call has not changed it before.
C12_DeleteMissingId ==
    [][\A p \in Procs :
          (/\ call[p].op = "delete" /\ pc'[p] = "idle"
           /\ Persisted # None
           /\ EntriesOf(Persisted[1], call[p].comment_id) = {})
          =>
          /\ ret'.proc = p
          /\ ret'.result \in {Ok(Bool(FALSE)), IoError("other")}
          /\ ~ret'.wrote
          /\ CanonicalFile' = CanonicalFile]_vars

\* C12 witness: delete_comment of c1 returned Ok(false) on a collection that
\* holds only c2, and the file is the initial one.
C12_Witness ==
    /\ Returned("delete") /\ ret.call.comment_id = "c1"
    /\ ret.result = Ok(Bool(FALSE))
    /\ file0 # None /\ ~Malformed(file0) /\ Len(from_str(file0[1])[1]) = 1
    /\ CanonicalFile = file0 /\ commits = 0

\* A path the claims call invalid: two dots in a row, or starting at the root.
ClaimInvalidPath(path) ==
    \/ \E i \in 1..Len(path), j \in 1..Len(path) :
          j = i + 1 /\ path[i] = "." /\ path[j] = "."
    \/ Len(path) >= 1 /\ Head(path) = "/"

PathOf(c) == IF c.op = "save" THEN c.supplied.file_path ELSE c.file_path

\* C10: a save_comment or get_comments_for_file whose file_path contains ".."
\* or is absolute has at no point of the call reached the filesystem or
\* changed the comment file, and what it returns is InvalidPath.
C10_InvalidPathBeforeIo ==
    /\ \A p \in Procs :
          (call[p].op \in {"save", "get"} /\ ClaimInvalidPath(PathOf(call[p])))
              => (~touched[p] /\ ~wrote[p])
    /\ ((Returned("save") \/ Returned("get")) /\ ClaimInvalidPath(PathOf(ret.call)))
          => (ret.result = InvalidPath /\ ~ret.touched /\ ~ret.wrote)

\* C10 witness: a save with "../a" returned InvalidPath in a repository that
\* still has no .tinydiff directory.
C10_Witness ==
    /\ Returned("save")
    /\ ret.call.supplied.file_path = <<".", ".", "/", "a">>
    /\ ret.result = InvalidPath
    /\ ~dir /\ \A n \in FileNames : fs[n] = None

\* ------------------------------------------- one save_comment call, any input
InitSave ==
    /\ InitStore({[dir |-> FALSE, file |-> None],
                  [dir |-> TRUE,
                   file |-> Some(to_string_pretty(
                       <<Cmt("c1", GoodPath, "y", 1, Some(<<"a">>), TRUE),
                         Cmt("c2", GoodPath, "y", 2, None, FALSE)>>))]})
    /\ budget = 1
    /\ IdleAnchor
    /\ IdleGit

StartSaveAny ==
    /\ CanBegin(1)
    /\ \E c \in RichComments, fc \in RichContents :
          Begin(1, [op |-> "save", comment |-> c, file_contents |-> fc,
                    supplied |-> c], "save_validate")

NextSave ==
    \/ StartSaveAny
    \/ SaveValidate(1) \/ Mkdir(1) \/ LockCreate(1) \/ LockExclusive(1)
    \/ LoadExists(1) \/ LoadRead(1)
    \/ TmpCreate(1) \/ TmpWrite(1) \/ Rename(1) \/ RmTmp(1)

SpecSave == InitSave /\ [][NextSave]_vars

\* The 3-line window of the claims at zero-based index k: the line above or
\* the empty string, the line, the line below or the empty string, joined by
\* newlines.
ClaimLine(ls, j) == IF j >= 0 /\ j < Len(ls) THEN ls[j + 1] ELSE <<>>
ClaimWindow(ls, k) ==
    ClaimLine(ls, k - 1) \o <<NL>> \o ClaimLine(ls, k) \o <<NL>> \o ClaimLine(ls, k + 1)

\* C8: a successful save_comment with file contents and a line n within the
\* contents' lines persists exactly one entry of the comment's id, Tracked at
\* line n (a context window, not orphaned), its context the 3-line window at
\* index n-1, whatever context and orphaned flag the caller supplied.
C8_SaveWithContentsTracks ==
    (/\ Succeeded("save")
     /\ ret.call.file_contents # None
     /\ ret.call.supplied.line_number \in 1..Len(lines(ret.call.file_contents[1])))
    =>
    /\ Persisted # None
    /\ Cardinality(EntriesOf(Persisted[1], ret.call.supplied.id)) = 1
    /\ \A i \in EntriesOf(Persisted[1], ret.call.supplied.id) :
          /\ Persisted[1][i].line_number = ret.call.supplied.line_number
          /\ Persisted[1][i].context_window =
                Some(ClaimWindow(lines(ret.call.file_contents[1]),
                                 ret.call.supplied.line_number - 1))
          /\ ~Persisted[1][i].unanchored
          /\ Persisted[1][i].body = ret.call.supplied.body
          /\ Persisted[1][i].file_path = ret.call.supplied.file_path

\* C8 witness: a comment supplied as orphaned with another context, saved on
\* line 2 of a text of three lines, over a stored entry of the same id.
C8_Witness ==
    /\ Succeeded("save")
    /\ ret.call.file_contents # None
    /\ Len(lines(ret.call.file_contents[1])) = 3
    /\ ret.call.supplied.line_number = 2
    /\ ret.call.supplied.unanchored
    /\ ret.call.supplied.context_window = Some(<<"a">>)
    /\ file0 # None
    /\ Persisted # None /\ Len(Persisted[1]) = 2
    /\ ~Persisted[1][1].unanchored

\* C9, as claimed: a successful save_comment without file contents persists
\* the comment Pinned at its line (no context window, not orphaned), whatever
\* anchor state the caller supplied, so that re-anchoring the stored comment
\* against any text leaves its line unchanged.
C9_SaveWithoutContentsPins ==
    (Succeeded("save") /\ ret.call.file_contents = None)
    =>
    /\ Persisted # None
    /\ \A i \in EntriesOf(Persisted[1], ret.call.supplied.id) :
          /\ Persisted[1][i].line_number = ret.call.supplied.line_number
          /\ Persisted[1][i].context_window = None
          /\ ~Persisted[1][i].unanchored
          /\ \A t \in Texts :
                re_anchor_comment(Persisted[1][i], t).line_number
                    = ret.call.supplied.line_number

\* ------------------------------------------------- one read-only call
OtherPath == <<"a", "a">>
ReadPaths == {GoodPath, OtherPath}
ReadTexts == {<<>>, <<"a">>, <<NL, "a">>}

\* Comments a store may hold: of either file, pinned, tracked by the window
\* of a line "a" below an empty or missing line, or with a context no text has.
StoredComments(id) ==
    [id : {id}, file_path : ReadPaths, body : {"x"}, line_number : {1, 2},
     context_window : {None, Some(<<NL, "a", NL>>), Some(<<"a">>)},
     unanchored : {FALSE}]

\* Collections of at most two comments; ids are unique in a stored collection.
StoredCollections ==
    {<<>>}
    \cup {<<c>> : c \in StoredComments("c1")}
    \cup {<<c, d>> : c \in StoredComments("c1"), d \in StoredComments("c2")}
    \cup {<<d, c>> : c \in StoredComments("c1"), d \in StoredComments("c2")}

\* A relative path of one segment, a file name with two consecutive dots.
DottedName == <<"a", ".", ".", "a">>

ReadDisks ==
    {[dir |-> FALSE, file |-> None],
     [dir |-> TRUE, file |-> None],
     [dir |-> TRUE, file |-> Some(<<TokJunk>>)],
     [dir |-> TRUE, file |-> Some(<<TokOpen>>)]}
    \cup {[dir |-> TRUE, file |-> Some(to_string_pretty(cs))] : cs \in StoredCollections}

InitRead ==
    /\ InitStore(ReadDisks)
    /\ budget = 1
    /\ IdleAnchor
    /\ IdleGit

StartLoad(p) ==
    /\ CanBegin(p)
    /\ Begin(p, [op |-> "load"], "load_exists")

StartGetAny ==
    /\ CanBegin(1)
    /\ \E fp \in ReadPaths \cup BadPaths \cup {DottedName}, t \in ReadTexts :
          Begin(1, [op |-> "get", file_path |-> fp, file_contents |-> t],
                "get_validate")

NextRead ==
    \/ StartLoad(1) \/ StartGetAny
    \/ GetValidate(1) \/ LoadExists(1) \/ LoadRead(1)

SpecRead == InitRead /\ [][NextRead]_vars

\* C13: load_comments returns the empty collection when comments.json does
\* not exist, and an error, never a collection, when the file exists and
\* does not parse.
C13_LoadAbsentOrMalformed ==
    Returned("load") =>
        /\ CanonicalFile = None => ret.result = Ok(Comments(<<>>))
        /\ Malformed(CanonicalFile) => ~ret.result.ok

\* C13 witness: load_comments returned an error for a file cut short.
C13_Witness ==
    /\ Returned("load")
    /\ CanonicalFile = Some(<<TokOpen>>)
    /\ ret.result = IoError("InvalidData")

\* C14, as claimed: load_comments of a malformed comments.json fails with an
\* error of the Serialization kind, not of the Io kind of filesystem and lock
\* failures (a failing read of the file aside).
C14_MalformedIsSerialization ==
    (Returned("load") /\ Malformed(CanonicalFile)) =>
        /\ ~ret.result.ok
        /\ ret.result.variant = "Serialization" \/ ret.result = IoError("other")

\* The k-th smallest element of a set of indices.
Nth(S, k) == CHOOSE i \in S : Cardinality({j \in S : j <= i}) = k
StoredAtStart == IF file0 = None THEN <<>> ELSE from_str(file0[1])[1]

\* C20: a successful get_comments_for_file(repo, p, text) returns the stored
\* comments whose file_path equals p, all of them and no other, in stored
\* order, each as re_anchor_comment makes it against text.
C20_GetFiltersAndReAnchors ==
    Succeeded("get") =>
        LET stored == StoredAtStart
            mine == {i \in 1..Len(stored) : stored[i].file_path = ret.call.file_path}
            got == ret.result.val.comments
        IN /\ Len(got) = Cardinality(mine)
           /\ \A k \in 1..Len(got) :
                 got[k] = re_anchor_comment(stored[Nth(mine, k)],
                                            ret.call.file_contents)

\* C20 witness: of two stored comments the second is of the file asked for,
\* the first of a file whose path starts with it; the one returned has moved
\* from line 1 to line 2.
C20_Witness ==
    /\ Succeeded("get")
    /\ Len(StoredAtStart) = 2
    /\ StoredAtStart[1].file_path = OtherPath
    /\ StoredAtStart[2].file_path = GoodPath /\ StoredAtStart[2].line_number = 1
    /\ ret.call.file_path = GoodPath
    /\ Len(ret.result.val.comments) = 1
    /\ ret.result.val.comments[1].line_number = 2

\* ------------------------------------------- diff and contents queries
\* Longest file_path of a query, in characters.
MaxPathLen == 3
PathAlphabet == {".", "/", "a"}
QueryPaths == UNION {[1..n -> PathAlphabet] : n \in 1..MaxPathLen} \cup BadPaths
Targets == {"Staged", "Unstaged"}
GitError == [ok |-> FALSE, variant |-> "Git", kind |-> "none"]

\* The components of a path, split at "/".
RECURSIVE Components(_, _)
Components(path, cur) ==
    IF path = <<>> THEN <<cur>>
    ELSE IF Head(path) = "/" THEN <<cur>> \o Components(Tail(path), <<>>)
    ELSE Components(Tail(path), Append(cur, Head(path)))

\* Whether the path, resolved from the working directory without following
\* links, leaves it.
RECURSIVE LeavesWorkdir(_, _)
LeavesWorkdir(comps, depth) ==
    IF comps = <<>> THEN FALSE
    ELSE IF Head(comps) = <<".", ".">>
         THEN depth = 0 \/ LeavesWorkdir(Tail(comps), depth - 1)
    ELSE IF Head(comps) \in {<<>>, <<".">>}
         THEN LeavesWorkdir(Tail(comps), depth)
    ELSE LeavesWorkdir(Tail(comps), depth + 1)

InitQuery ==
    /\ InitStore({[dir |-> FALSE, file |-> None]})
    /\ budget = 0
    /\ IdleAnchor
    /\ IdleGit

QueryReturn(r) ==
    /\ qpc' = "done"
    /\ qret' = [call |-> qcall, result |-> r, io |-> qio']
    /\ UNCHANGED qcall

QueryGoto(label) ==
    /\ qpc' = label
    /\ UNCHANGED <<qcall, qret>>

\* What the call finds: a repository without working directory (bare),
\* whether the path is in HEAD (committed) and in the index (tracked),
\* whether the file and its parent directory exist in the working tree, and
\* whether a symbolic link on the way leads out of the working directory.
Worlds ==
    {w \in [bare : BOOLEAN, committed : BOOLEAN, tracked : BOOLEAN,
            exists : BOOLEAN, parent : BOOLEAN, link_out : BOOLEAN] :
        /\ w.exists => w.parent
        /\ w.bare => ~w.parent /\ ~w.link_out}

\* The paths a tree or the index can hold: names separated by "/".
PlainPath(path) ==
    \A i \in DOMAIN Components(path, <<>>) :
        Components(path, <<>>)[i] \notin {<<>>, <<".">>, <<".", ".">>}

StartQuery ==
    /\ qpc = "idle"
    /\ \E fn \in {"get_file_diff", "get_git_file_contents"},
          fp \in QueryPaths, t \in Targets, w \in Worlds :
            \* the parent of a path of one segment is the working directory
            /\ w.bare \/ w.parent \/ \E i \in DOMAIN fp : fp[i] = "/"
            /\ (w.committed \/ w.tracked) => PlainPath(fp)
            /\ qcall' = [fn |-> fn, file_path |-> fp, target |-> t, world |-> w]
    /\ qpc' = "discover"
    /\ UNCHANGED <<qret, qio, svars, cmt, txt, prev, applied, dvars, tvars, track>>

\* get_file_diff line 167, get_git_file_contents line 275:
\* discover_repository walks up from repo_path and opens the repository.
Discover ==
    /\ qpc = "discover"
    /\ qio' = qio \cup {"filesystem", "repository"}
    /\ \/ QueryReturn(GitError)
       \/ QueryGoto(IF qcall.fn = "get_file_diff" THEN "diff" ELSE "absolute")
    /\ UNCHANGED <<svars, cmt, txt, prev, applied, dvars, tvars, track>>

\* get_file_diff_with_repo, lines 178-268: the diff of the pathspec is
\* computed and printed; the path is checked nowhere.
DiffWithRepo ==
    /\ qpc = "diff"
    /\ qio' = qio \cup {"filesystem", "repository"}
    /\ \/ QueryReturn(GitError)
       \/ QueryReturn(Ok("FileDiff"))
    /\ UNCHANGED <<svars, cmt, txt, prev, applied, dvars, tvars, track>>

\* get_git_file_contents_with_repo, lines 284-289
CheckAbsolute ==
    /\ qpc = "absolute"
    /\ UNCHANGED qio
    /\ IF is_absolute(qcall.file_path)
       THEN QueryReturn(InvalidPath)
       ELSE QueryGoto(IF qcall.target = "Unstaged" THEN "canonicalize" ELSE "read")
    /\ UNCHANGED <<svars, cmt, txt, prev, applied, dvars, tvars, track>>

\* get_git_file_contents_with_repo, lines 291-315: the path, or its parent
\* when it does not exist, is canonicalized and must stay under the
\* canonicalized working directory.  The repository may have no working
\* directory, a directory on the way may be missing, and a link may lead out.
\* Whether the canonicalized path lies outside the canonicalized working
\* directory (the negation of starts_with, line 310).
Escapes(c) ==
    c.world.link_out \/ LeavesWorkdir(Components(c.file_path, <<>>), 0)

canonicalize_without_containment ==
    /\ qpc = "canonicalize"
    /\ IF qcall.world.bare
       THEN /\ UNCHANGED qio
            /\ QueryReturn(InvalidPath)
       ELSE /\ qio' = qio \cup {"filesystem"}
            /\ \/ QueryReturn(IoError("other"))
               \/ IF ~qcall.world.exists /\ ~qcall.world.parent
                  THEN QueryReturn(IoError("NotFound"))
                  ELSE QueryGoto("read")
    /\ UNCHANGED <<svars, cmt, txt, prev, applied, dvars, tvars, track>>

Canonicalize ==
    /\ qpc = "canonicalize"
    /\ IF qcall.world.bare
       THEN /\ UNCHANGED qio
            /\ QueryReturn(InvalidPath)
       ELSE /\ qio' = qio \cup {"filesystem"}
            /\ \/ QueryReturn(IoError("other"))
               \/ IF ~qcall.world.exists /\ ~qcall.world.parent
                  THEN QueryReturn(IoError("NotFound"))
                  ELSE IF Escapes(qcall)
                       THEN QueryReturn(InvalidPath)
                       ELSE QueryGoto("read")
    /\ UNCHANGED <<svars, cmt, txt, prev, applied, dvars, tvars, track>>

\* get_git_file_contents_with_repo, lines 317-370: the blobs of HEAD and the
\* index, or of the index and the file on disk.
\* Lines 357-369: the value returned; a content is named here by where it
\* comes from (blob_to_content of a blob, bytes_to_content of bytes read).
GitFileContents(old, new) == [old_file |-> old, new_file |-> new]

ReadContents ==
    /\ qpc = "read"
    /\ \/ /\ qio' = qio \cup {"filesystem", "repository"}
          /\ QueryReturn(GitError)
       \/ /\ qcall.target = "Staged"
          /\ qio' = qio \cup {"filesystem", "repository"}
          /\ QueryReturn(Ok(GitFileContents(
                IF qcall.world.committed THEN Some("head blob") ELSE None,
                IF qcall.world.tracked THEN Some("index blob") ELSE None)))
       \/ /\ qcall.target = "Unstaged"
          /\ qio' = qio \cup {"filesystem", "repository"}
          /\ QueryReturn(IoError("other"))
       \/ /\ qcall.target = "Unstaged"
          /\ qio' = qio \cup {"filesystem", "repository"}
                       \cup (IF qcall.world.exists THEN {"bytes"} ELSE {})
          /\ QueryReturn(Ok(GitFileContents(
                IF qcall.world.tracked THEN Some("index blob") ELSE None,
                IF qcall.world.exists THEN Some("bytes on disk") ELSE None)))
    /\ UNCHANGED <<svars, cmt, txt, prev, applied, dvars, tvars, track>>

NextQuery ==
    \/ StartQuery \/ Discover \/ DiffWithRepo
    \/ CheckAbsolute \/ Canonicalize \/ ReadContents

SpecQuery == InitQuery /\ [][NextQuery]_vars

\* C11, as claimed: a get_file_diff or get_git_file_contents, Staged or
\* Unstaged, whose file_path contains ".." or is absolute has at no point
\* opened the repository or reached the filesystem, and returns InvalidPath.
C11_QueriesRejectInvalidPath ==
    /\ (qcall # NoCall /\ ClaimInvalidPath(qcall.file_path)) => qio = {}
    /\ (qret # NoReturn /\ ClaimInvalidPath(qret.call.file_path)) =>
          qret.result = InvalidPath

\* ------------------------------------------------------- the hunk builder
\* Callbacks the diff engine makes while printing one diff.
MaxCallbacks == 5

Hdr(os, ol, ns, nl) ==
    [old_start |-> os, old_lines |-> ol, new_start |-> ns, new_lines |-> nl]

\* Hunk headers the engine reports.
HunkHeaders == {Hdr(1, 1, 1, 1), Hdr(1, 1, 1, 2), Hdr(2, 1, 1, 1)}

\* Deltas: a text file changed, a binary file changed, a text file renamed.
Deltas ==
    {[binary |-> FALSE, new_file |-> Some(GoodPath), old_file |-> Some(GoodPath)],
     [binary |-> TRUE, new_file |-> Some(GoodPath), old_file |-> Some(GoodPath)],
     [binary |-> FALSE, new_file |-> Some(OtherPath), old_file |-> Some(GoodPath)]}

LineNos == {None, Some(1)}
Markers == {"ContextEOFNL", "AddEOFNL", "DeleteEOFNL"}
EngineLine(origin, old, new) ==
    [origin |-> origin, old_lineno |-> old, new_lineno |-> new]

\* Content lines as the engine numbers them: an added line has no old number,
\* a deleted line no new number, a context line both; what numbers an
\* end-of-file-newline marker comes with is the engine's business.
ContentLines ==
    {EngineLine("Addition", None, Some(1)),
     EngineLine("Deletion", Some(1), None),
     EngineLine("Context", Some(1), Some(1))}
    \cup {EngineLine(m, o, n) : m \in Markers, o \in LineNos, n \in LineNos}

\* Lines 213-221 compared on old_start alone.
needs_new_hunk_old_start_only(hs, h) ==
    IF hs = <<>> THEN TRUE ELSE hs[Len(hs)].old_start # h.old_start

\* get_file_diff_with_repo, lines 213-221
needs_new_hunk(hs, h) ==
    IF hs = <<>> THEN TRUE
    ELSE LET last == hs[Len(hs)]
         IN \/ last.old_start # h.old_start
            \/ last.new_start # h.new_start
            \/ last.old_lines # h.old_lines
            \/ last.new_lines # h.new_lines

\* lines 224-231; the header text is the engine's, trimmed
DiffHunk(h) ==
    [old_start |-> h.old_start, old_lines |-> h.old_lines,
     new_start |-> h.new_start, new_lines |-> h.new_lines,
     lines |-> <<>>]

\* Lines 235-243 without the arm of the end-of-file-newline markers.
change_type_drops_markers(origin) ==
    IF origin = "Addition" THEN Some("Addition")
    ELSE IF origin = "Deletion" THEN Some("Deletion")
    ELSE IF origin = "Context" THEN Some("Context")
    ELSE None

\* lines 235-243: None stands for the early `return true`
change_type(origin) ==
    IF origin = "Addition" THEN Some("Addition")
    ELSE IF origin = "Deletion" THEN Some("Deletion")
    ELSE IF origin = "Context" THEN Some("Context")
    ELSE IF origin \in {"ContextEOFNL", "AddEOFNL", "DeleteEOFNL"} THEN Some("Context")
    ELSE None

\* lines 251-256; the content is the engine's, without trailing newlines
DiffLine(ct, line) ==
    [change_type |-> ct, old_line_no |-> line.old_lineno,
     new_line_no |-> line.new_lineno]

push_line(hs, x) == [hs EXCEPT ![Len(hs)] = Append(@, x)]

\* The closure of lines 195-260, called with (delta, hunk, line).
Callback(d, h, line) ==
    LET path == IF d.new_file # None THEN d.new_file[1] ELSE actual_path
        opens == h # None /\ needs_new_hunk(hunks, h[1])
        hunks1 == IF opens THEN Append(hunks, DiffHunk(h[1])) ELSE hunks
        arrived1 == IF opens THEN Append(arrived, <<>>) ELSE arrived
        ct == change_type(line.origin)
    IN /\ actual_path' = path
       /\ old_path' = IF d.old_file # None /\ d.old_file[1] # path
                      THEN Some(d.old_file[1]) ELSE old_path
       /\ is_binary' = (is_binary \/ d.binary)
       /\ IF ct = None \/ hunks1 = <<>>
          THEN hunks' = hunks1 /\ arrived' = arrived1
          ELSE /\ hunks' = [hunks1 EXCEPT ![Len(hunks1)].lines =
                                Append(@, DiffLine(ct[1], line))]
               /\ arrived' = push_line(arrived1, [hunk |-> h, origin |-> line.origin])
       /\ fed' = fed + 1
       /\ stream' = Append(stream, [hunk |-> h, line |-> line])

InitDiff ==
    /\ InitStore({[dir |-> FALSE, file |-> None]})
    /\ budget = 0
    /\ IdleAnchor
    /\ IdleQuery /\ IdleStatus /\ IdleTrack
    /\ delta = NoDelta /\ cur_hunk = None /\ fed = 0
    /\ hunks = <<>> /\ is_binary = FALSE
    /\ \E fp \in ReadPaths : actual_path = fp
    /\ old_path = None
    /\ arrived = <<>> /\ stream = <<>> /\ file_diff = None

Printing == file_diff = None /\ fed < MaxCallbacks
NotDiff == <<svars, cmt, txt, prev, applied, qvars, tvars, track>>

\* The engine starts the next file of the diff with its file header.
DeltaHeader ==
    /\ Printing
    /\ \E d \in Deltas :
          /\ delta' = d
          /\ Callback(d, None, EngineLine("FileHeader", None, None))
    /\ cur_hunk' = None
    /\ UNCHANGED <<file_diff, NotDiff>>

\* A binary file is printed as a notice, without hunks.
BinaryLine ==
    /\ Printing /\ delta # NoDelta /\ delta.binary
    /\ Callback(delta, None, EngineLine("Binary", None, None))
    /\ UNCHANGED <<delta, cur_hunk, file_diff, NotDiff>>

\* A hunk header; the engine may report the header of the open hunk again.
HunkHeader ==
    /\ Printing /\ delta # NoDelta /\ ~delta.binary
    /\ \E h \in HunkHeaders :
          /\ cur_hunk' = Some(h)
          /\ Callback(delta, Some(h), EngineLine("HunkHeader", None, None))
    /\ UNCHANGED <<delta, file_diff, NotDiff>>

\* A line of the current hunk.
HunkLine ==
    /\ Printing /\ cur_hunk # None
    /\ \E line \in ContentLines : Callback(delta, cur_hunk, line)
    /\ UNCHANGED <<delta, cur_hunk, file_diff, NotDiff>>

\* A line that comes with no hunk (not expected of the engine).
HunklessLine ==
    /\ Printing /\ delta # NoDelta /\ cur_hunk = None
    /\ Callback(delta, None, EngineLine("Context", Some(1), Some(1)))
    /\ UNCHANGED <<delta, cur_hunk, file_diff, NotDiff>>

\* lines 262-267
DiffReturn ==
    /\ file_diff = None
    /\ file_diff' = Some([path |-> actual_path, old_path |-> old_path,
                          hunks |-> hunks, is_binary |-> is_binary])
    /\ UNCHANGED <<delta, cur_hunk, fed, hunks, is_binary, actual_path, old_path,
                   arrived, stream, NotDiff>>

NextDiff ==
    \/ DeltaHeader \/ BinaryLine \/ HunkHeader \/ HunkLine \/ HunklessLine
    \/ DiffReturn

SpecDiff == InitDiff /\ [][NextDiff]_vars

Tuple(h) == <<h.old_start, h.old_lines, h.new_start, h.new_lines>>

\* C15: a callback opens a new hunk exactly when it carries a header and
\* either no hunk is open or the header's tuple differs from the tuple of the
\* hunk opened last; the new hunk has the header's tuple and the earlier hunks
\* stay.  Hence adjacent hunks never have equal tuples, and a line that came
\* with a header is in a hunk of that header's tuple.
C15_HunkOpenedOnTupleChange ==
    /\ [][fed' = fed + 1 =>
            /\ (Len(hunks') = Len(hunks) + 1) <=>
                  (/\ cur_hunk' # None
                   /\ hunks = <<>> \/ Tuple(hunks[Len(hunks)]) # Tuple(cur_hunk'[1]))
            /\ Len(hunks') \in {Len(hunks), Len(hunks) + 1}
            /\ \A i \in 1..Len(hunks) : Tuple(hunks'[i]) = Tuple(hunks[i])
            /\ Len(hunks') = Len(hunks) + 1 =>
                  Tuple(hunks'[Len(hunks')]) = Tuple(cur_hunk'[1])]_vars
    /\ [](\A i \in 1..(Len(hunks) - 1) : Tuple(hunks[i]) # Tuple(hunks[i + 1]))
    /\ [](/\ Len(arrived) = Len(hunks)
          /\ \A i \in 1..Len(hunks) :
                /\ Len(arrived[i]) = Len(hunks[i].lines)
                /\ \A j \in 1..Len(arrived[i]) :
                      arrived[i][j].hunk # None =>
                          Tuple(arrived[i][j].hunk[1]) = Tuple(hunks[i]))

\* C15 witness: two hunks, a line in each, from five callbacks.
C15_Witness ==
    /\ fed = 5 /\ Len(hunks) = 2
    /\ Len(hunks[1].lines) = 1 /\ Len(hunks[2].lines) = 1
    /\ hunks[1].old_start = hunks[2].old_start

\* C16, as claimed: in the FileDiff returned, an Addition line has no old
\* line number and has a new one, a Deletion line has an old one and no new
\* one, a Context line has both, the Context lines made of end-of-file-newline
\* markers included.
C16_LineNumbersByType ==
    file_diff # None =>
        \A i \in 1..Len(file_diff[1].hunks) :
            \A j \in 1..Len(file_diff[1].hunks[i].lines) :
                LET l == file_diff[1].hunks[i].lines[j]
                IN /\ l.change_type = "Addition" =>
                        (l.old_line_no = None /\ l.new_line_no # None)
                   /\ l.change_type = "Deletion" =>
                        (l.old_line_no # None /\ l.new_line_no = None)
                   /\ l.change_type = "Context" =>
                        (l.old_line_no # None /\ l.new_line_no # None)

\* C17, as claimed: the FileDiff returned has no hunks when its is_binary
\* flag is true; the flag is true once a delta reported binary and never
\* reverts.
C17_BinaryHasNoHunks ==
    /\ [](file_diff # None =>
            (file_diff[1].is_binary => file_diff[1].hunks = <<>>))
    /\ [](delta.binary => is_binary)
    /\ [][is_binary => is_binary']_vars

\* ------------------------------------------------------------ the status
\* Entries the status iterator yields in one get_status.
MaxEntries == 1

IndexFlags == {"INDEX_NEW", "INDEX_MODIFIED", "INDEX_DELETED", "INDEX_RENAMED",
               "INDEX_TYPECHANGE"}
WtFlags == {"WT_NEW", "WT_MODIFIED", "WT_DELETED", "WT_TYPECHANGE", "WT_RENAMED"}

\* Lines 19-32 with Deleted tested before Modified.
status_to_file_status_deleted_first(status, for_staged) ==
    IF for_staged
    THEN IF "INDEX_NEW" \in status THEN Some("Added")
         ELSE IF "INDEX_DELETED" \in status THEN Some("Deleted")
         ELSE IF "INDEX_MODIFIED" \in status THEN Some("Modified")
         ELSE IF "INDEX_RENAMED" \in status THEN Some("Renamed")
         ELSE IF "INDEX_TYPECHANGE" \in status THEN Some("Typechange")
         ELSE None
    ELSE IF "WT_NEW" \in status THEN Some("Untracked")
    ELSE IF "WT_DELETED" \in status THEN Some("Deleted")
    ELSE IF "WT_MODIFIED" \in status THEN Some("Modified")
    ELSE IF "WT_RENAMED" \in status THEN Some("Renamed")
    ELSE IF "WT_TYPECHANGE" \in status THEN Some("Typechange")
    ELSE IF "CONFLICTED" \in status THEN Some("Conflicted")
    ELSE None

\* status_to_file_status, lines 18-48
status_to_file_status(status, for_staged) ==
    IF for_staged
    THEN IF "INDEX_NEW" \in status THEN Some("Added")
         ELSE IF "INDEX_MODIFIED" \in status THEN Some("Modified")
         ELSE IF "INDEX_DELETED" \in status THEN Some("Deleted")
         ELSE IF "INDEX_RENAMED" \in status THEN Some("Renamed")
         ELSE IF "INDEX_TYPECHANGE" \in status THEN Some("Typechange")
         ELSE None
    ELSE IF "WT_NEW" \in status THEN Some("Untracked")
    ELSE IF "WT_MODIFIED" \in status THEN Some("Modified")
    ELSE IF "WT_DELETED" \in status THEN Some("Deleted")
    ELSE IF "WT_RENAMED" \in status THEN Some("Renamed")
    ELSE IF "WT_TYPECHANGE" \in status THEN Some("Typechange")
    ELSE IF "CONFLICTED" \in status THEN Some("Conflicted")
    ELSE None

\* The k-th entry's path; the iterator yields one entry per path.
EntryPath(k) == [i \in 1..k |-> "a"]
RenamedTo == <<"a", "/", "a">>

\* The rename deltas an entry may carry: none, one without paths, one with
\* the old and the new path.
RenameDeltas(path) ==
    {None, Some([new_file |-> None, old_file |-> None]),
     Some([new_file |-> Some(RenamedTo), old_file |-> Some(path)])}

\* Flag sets of an entry: any index flags with any working-tree flags, with
\* or without CONFLICTED; a path that is new in the working tree is not in
\* the index, so of the index flags only INDEX_DELETED goes with WT_NEW.
StatusFlagSets ==
    {i \cup w \cup c : i \in SUBSET IndexFlags, w \in SUBSET WtFlags,
                       c \in {{}, {"CONFLICTED"}}}
    \ {st \in SUBSET (IndexFlags \cup WtFlags \cup {"CONFLICTED"}) :
          "WT_NEW" \in st /\ (st \cap IndexFlags) \ {"INDEX_DELETED"} # {}}

\* The deltas of an entry are looked at only under its rename flags.
DeltasUnder(flag, st, path) == IF flag \in st THEN RenameDeltas(path) ELSE {None}

StatusEntries(k) ==
    UNION {{[path |-> Some(EntryPath(k)), status |-> st, head_to_index |-> h,
             index_to_workdir |-> w] :
               h \in DeltasUnder("INDEX_RENAMED", st, EntryPath(k)),
               w \in DeltasUnder("WT_RENAMED", st, EntryPath(k))} :
           st \in StatusFlagSets}

FileEntry(path, status, old) == [path |-> path, status |-> status, old_path |-> old]

\* lines 101-114 and 131-144: the paths of an entry with a rename flag
renamed_paths(d, default_path) ==
    IF d = None THEN <<default_path, None>>
    ELSE <<IF d[1].new_file # None THEN d[1].new_file[1] ELSE default_path,
           d[1].old_file>>

InitStatus ==
    /\ InitStore({[dir |-> FALSE, file |-> None]})
    /\ budget = 0
    /\ IdleAnchor
    /\ IdleQuery /\ IdleDiff /\ IdleStatus /\ IdleTrack

NotStatus == <<svars, cmt, txt, prev, applied, qvars, dvars, track>>

\* The body of the loop of lines 96-153, for the next entry.
StatusEntry ==
    /\ git_status = None /\ entry = NoEntry /\ taken < MaxEntries
    /\ \E e \in StatusEntries(taken + 1) :
          LET default_path == e.path[1]
              s == status_to_file_status(e.status, TRUE)
              u == status_to_file_status(e.status, FALSE)
              sp == IF "INDEX_RENAMED" \in e.status
                    THEN renamed_paths(e.head_to_index, default_path)
                    ELSE <<default_path, None>>
              up == IF "WT_RENAMED" \in e.status
                    THEN renamed_paths(e.index_to_workdir, default_path)
                    ELSE <<default_path, None>>
          IN /\ entry' = e
             /\ staged' = IF s # None
                           THEN Append(staged, FileEntry(sp[1], s[1], sp[2]))
                           ELSE staged
             /\ untracked' = IF u = Some("Untracked")
                              THEN Append(untracked, FileEntry(default_path, u[1], None))
                              ELSE untracked
             /\ unstaged' = IF u # None /\ u # Some("Untracked")
                             THEN Append(unstaged, FileEntry(up[1], u[1], up[2]))
                             ELSE unstaged
    /\ UNCHANGED <<taken, git_status, NotStatus>>

\* line 153: the iteration ends, its entry is dropped.
StatusEndIteration ==
    /\ git_status = None /\ entry # NoEntry
    /\ entry' = NoEntry
    /\ taken' = taken + 1
    /\ UNCHANGED <<staged, unstaged, untracked, git_status, NotStatus>>

\* lines 155-159
StatusReturn ==
    /\ git_status = None /\ entry = NoEntry
    /\ git_status' = Some([staged |-> staged, unstaged |-> unstaged,
                           untracked |-> untracked])
    /\ UNCHANGED <<entry, taken, staged, unstaged, untracked, NotStatus>>

NextStatus == StatusEntry \/ StatusEndIteration \/ StatusReturn

SpecStatus == InitStatus /\ [][NextStatus]_vars

\* The kind the claims give a set of flags: that of the first flag of the
\* order that is in the set.
IndexOrder == <<"INDEX_NEW", "INDEX_MODIFIED", "INDEX_DELETED", "INDEX_RENAMED",
                "INDEX_TYPECHANGE">>
WtOrder == <<"WT_NEW", "WT_MODIFIED", "WT_DELETED", "WT_RENAMED", "WT_TYPECHANGE">>
KindOrder == <<"Added", "Modified", "Deleted", "Renamed", "Typechange">>
First(order, st) ==
    LET hits == {i \in 1..Len(order) : order[i] \in st}
    IN IF hits = {} THEN 0 ELSE CHOOSE i \in hits : \A j \in hits : i <= j
Last(list) == list[Len(list)]

\* C18: for the flags of every entry the loop takes, the staged list gets an
\* entry exactly when an index flag is set, of the kind of the first set flag
\* in the order New(Added), Modified, Deleted, Renamed, Typechange; the
\* working-tree lists get one exactly when a working-tree flag or CONFLICTED
\* is set: in untracked with kind Untracked when WT_NEW is set, else in
\* unstaged with the kind of the first set working-tree flag in the same
\* order, and Conflicted only when no working-tree flag is set.
C18_StatusPrecedence ==
    [][(entry = NoEntry /\ entry' # NoEntry) =>
        LET st == entry'.status
            i == First(IndexOrder, st)
            w == First(WtOrder, st)
        IN /\ IF i = 0 THEN staged' = staged
              ELSE /\ Len(staged') = Len(staged) + 1
                   /\ Last(staged').status = KindOrder[i]
           /\ IF w = 1
              THEN /\ Len(untracked') = Len(untracked) + 1
                   /\ Last(untracked').status = "Untracked"
                   /\ unstaged' = unstaged
              ELSE /\ untracked' = untracked
                   /\ IF w > 1
                      THEN /\ Len(unstaged') = Len(unstaged) + 1
                           /\ Last(unstaged').status = KindOrder[w]
                      ELSE IF "CONFLICTED" \in st
                      THEN /\ Len(unstaged') = Len(unstaged) + 1
                           /\ Last(unstaged').status = "Conflicted"
                      ELSE unstaged' = unstaged]_vars

\* C18 witness: an entry with INDEX_MODIFIED, INDEX_RENAMED, WT_DELETED,
\* WT_TYPECHANGE and CONFLICTED is staged as Modified and unstaged as Deleted.
C18_Witness ==
    /\ entry.status = {"INDEX_MODIFIED", "INDEX_RENAMED", "WT_DELETED",
                       "WT_TYPECHANGE", "CONFLICTED"}
    /\ staged # <<>> /\ Last(staged).status = "Modified"
    /\ unstaged # <<>> /\ Last(unstaged).status = "Deleted"
    /\ untracked = <<>>

PathsOf(list) == {list[i].path : i \in 1..Len(list)}

\* C19, as claimed: in the status get_status returns, a path in untracked is
\* in neither staged nor unstaged.
C19_UntrackedOnlyUntracked ==
    git_status # None =>
        \A p \in PathsOf(git_status[1].untracked) :
            /\ p \notin PathsOf(git_status[1].staged)
            /\ p \notin PathsOf(git_status[1].unstaged)

\* C30, as claimed: in the status get_status returns, an entry of staged or
\* unstaged carries a prior path if and only if its kind is Renamed, whatever
\* flags its status entry had; no entry of untracked carries one.
C30_OldPathIffRenamed ==
    git_status # None =>
        /\ \A i \in 1..Len(git_status[1].staged) :
              git_status[1].staged[i].old_path # None
                  <=> git_status[1].staged[i].status = "Renamed"
        /\ \A i \in 1..Len(git_status[1].unstaged) :
              git_status[1].unstaged[i].old_path # None
                  <=> git_status[1].unstaged[i].status = "Renamed"
        /\ \A i \in 1..Len(git_status[1].untracked) :
              git_status[1].untracked[i].old_path = None

\* ------------------------------------------------------- the path segments
\* The claim's reading of an invalid path: absolute, or one of its segments
\* is "..".
SegmentInvalid(path) ==
    \/ path # <<>> /\ Head(path) = "/"
    \/ \E i \in DOMAIN Components(path, <<>>) :
          Components(path, <<>>)[i] = <<".", ".">>

\* C21, as claimed: get_comments_for_file returns InvalidPath if and only if
\* the path is absolute or one of its segments is ".."; a relative path whose
\* file name merely contains two consecutive dots is accepted.
C21_RejectsExactlyDotDotSegments ==
    Returned("get") =>
        (ret.result = InvalidPath <=> SegmentInvalid(ret.call.file_path))

\* ------------------------------------------------- working-tree contents
\* A get_git_file_contents call with the Unstaged target has returned.
UnstagedReturned ==
    /\ qret # NoReturn
    /\ qret.call.fn = "get_git_file_contents"
    /\ qret.call.target = "Unstaged"

\* Failures of the repository or of the disk that the call passes on
\* whatever the path is.
Unrelated == {GitError, IoError("other")}

\* C22, as claimed: get_git_file_contents with the Unstaged target, for a
\* tracked relative path inside the working tree whose file no longer
\* exists, with or without its parent directory, returns Ok with the new
\* content absent and the old content that of the index; the deletion never
\* makes it return an error.
C22_DeletedFileIsAbsent ==
    (/\ UnstagedReturned
     /\ ~qret.call.world.bare /\ qret.call.world.tracked
     /\ ~qret.call.world.exists
     /\ ~is_absolute(qret.call.file_path) /\ ~Escapes(qret.call))
    => \/ qret.result = Ok(GitFileContents(Some("index blob"), None))
       \/ qret.result \in Unrelated

\* C26: with the Unstaged target the bytes of the working-tree file are
\* read only in a call whose canonicalized path (or canonicalized parent
\* joined with the file name) lies under the canonicalized working
\* directory; a call whose path lies outside returns InvalidPath, unless the
\* repository or the canonicalization failed before, and returns no
\* content; at no point of such a call have bytes of the file been read.
C26_ContainmentBeforeRead ==
    /\ (qcall # NoCall /\ "bytes" \in qio) =>
          /\ qcall.fn = "get_git_file_contents"
          /\ qcall.target = "Unstaged"
          /\ ~Escapes(qcall)
          /\ qpc = "done"
    /\ (UnstagedReturned /\ Escapes(qret.call)) =>
          /\ ~qret.result.ok
          /\ "bytes" \notin qret.io
          /\ \/ qret.result = InvalidPath
             \/ qret.result \in Unrelated
             \/ /\ qret.result = IoError("NotFound")
                /\ ~qret.call.world.parent

\* An Unstaged call on the existing file a/a, which a link leads out of the
\* working directory, has returned InvalidPath without reading its bytes.
C26_Witness ==
    /\ UnstagedReturned
    /\ qret.call.file_path = <<"a", "/", "a">>
    /\ qret.call.world.link_out /\ qret.call.world.exists
    /\ qret.result = InvalidPath
    /\ "bytes" \notin qret.io

\* ------------------------------------------- a save into a hand-edited file
\* Files that parse but were not written by the store: two entries share the
\* id c1.  The other file holds only c2.
EditedDisks ==
    {[dir |-> TRUE,
      file |-> Some(to_string_pretty(
          <<Cmt("c1", GoodPath, "y", 1, None, FALSE),
            Cmt("c2", GoodPath, "y", 2, None, FALSE),
            Cmt("c1", GoodPath, "z", 2, None, FALSE)>>))],
     [dir |-> TRUE,
      file |-> Some(to_string_pretty(
          <<Cmt("c2", GoodPath, "y", 2, None, FALSE)>>))]}

InitEdited ==
    /\ InitStore(EditedDisks)
    /\ budget = 1
    /\ IdleAnchor
    /\ IdleGit

SpecEdited == InitEdited /\ [][NextSave]_vars

\* C24, as claimed: after a successful save_comment of c against any
\* parseable collection, hand-edited ones included, the persisted collection
\* holds exactly one entry with c's id, and that entry is c (with the anchor
\* the save computed).
C24_SavedEntryIsUnique ==
    Succeeded("save") =>
        /\ Persisted # None
        /\ Cardinality(EntriesOf(Persisted[1], ret.call.comment.id)) = 1
        /\ \A i \in EntriesOf(Persisted[1], ret.call.comment.id) :
              Persisted[1][i] = ret.call.comment

\* ------------------------------------------------------ waiting for the lock
\* The concurrent store with processes that keep running: the scheduler lets
\* every process that can take a step take one, and the operating system
\* gives the lock to a process that keeps waiting for it once it stays free.
InitLive ==
    /\ InitStore({[dir |-> FALSE, file |-> None],
                  [dir |-> TRUE,
                   file |-> Some(to_string_pretty(
                       <<Cmt("c2", GoodPath, "y", 2, None, FALSE)>>))]})
    /\ budget = MaxCalls
    /\ IdleAnchor
    /\ IdleGit

\* The writers' calls: a save of either id, a delete of either id.
StartWriterSave(p) ==
    /\ CanBegin(p)
    /\ \E id \in Ids :
          Begin(p, [op |-> "save", comment |-> Cmt(id, GoodPath, "x", 1, None, FALSE),
                    file_contents |-> None,
                    supplied |-> Cmt(id, GoodPath, "x", 1, None, FALSE)],
                "save_validate")

\* The steps of a writer's call other than taking the lock.
Step(p) ==
    \/ SaveValidate(p)
    \/ Mkdir(p) \/ DirExists(p) \/ LockCreate(p)
    \/ LoadExists(p) \/ LoadRead(p)
    \/ TmpCreate(p) \/ TmpWrite(p) \/ Rename(p) \/ RmTmp(p)

\* lock_exclusive() returns with the lock held.
Acquire(p) == LockExclusive(p) /\ lock' = p

NextLive ==
    \E p \in Procs :
        \/ StartWriterSave(p) \/ StartDelete(p)
        \/ Step(p) \/ LockExclusive(p)

\* Every step of a call moves the process, and taking the lock changes it.
SpecLive ==
    /\ InitLive /\ [][NextLive]_vars
    /\ \A p \in Procs : WF_<<pc, lock>>(Step(p)) /\ WF_<<pc, lock>>(Acquire(p))

\* C25: a process holds the lock only inside a save_comment or delete_comment
\* call, between its lock_exclusive and its return: every return, the
\* Ok(false) returns of delete_comment and the error returns included,
\* releases it.  Hence a writer waiting for the lock eventually holds it (or
\* its lock_exclusive fails), and a writer holding it eventually returns.
C25_LockReleasedAndAcquired ==
    /\ [](\A p \in Procs :
            lock = p => /\ call[p] # NoCall /\ call[p].op \in {"save", "delete"}
                        /\ pc[p] \notin {"idle", "lock", "save_validate",
                                          "mkdir", "dir_exists", "lock_create"})
    /\ \A p \in Procs : (pc[p] = "lock") ~> (lock = p \/ pc[p] = "idle")
    /\ \A p \in Procs : (lock = p) ~> (pc[p] = "idle" /\ lock # p)

\* C25 witness: a delete_comment waits for the lock that another
\* delete_comment, which has just taken it, holds.
C25_Witness ==
    \E p, q \in Procs :
        /\ pc[p] = "lock" /\ call[p].op = "delete"
        /\ lock = q /\ call[q].op = "delete" /\ pc[q] = "load_exists"

\* -------------------------------------------------- the lines of the hunks
\* The kinds of line the claim has the builder keep.
Recognised == {"Addition", "Deletion", "Context"} \cup Markers

\* All lines of these hunks, hunk after hunk.
RECURSIVE Flat(_)
Flat(hs) == IF hs = <<>> THEN <<>> ELSE Head(hs).lines \o Flat(Tail(hs))

\* The callbacks from the first one that came with a hunk header on.
RECURSIVE SinceFirstHunk(_)
SinceFirstHunk(cbs) ==
    IF cbs = <<>> THEN <<>>
    ELSE IF Head(cbs).hunk # None THEN cbs
    ELSE SinceFirstHunk(Tail(cbs))

\* The origins and line numbers of the recognised lines among these callbacks.
RECURSIVE RecognisedLines(_)
RecognisedLines(cbs) ==
    IF cbs = <<>> THEN <<>>
    ELSE IF Head(cbs).line.origin \in Recognised
         THEN <<Head(cbs).line>> \o RecognisedLines(Tail(cbs))
         ELSE RecognisedLines(Tail(cbs))

\* An output line without its change type.
Numbers(x) == [old_lineno |-> x.old_line_no, new_lineno |-> x.new_line_no]
EngineNumbers(x) == [old_lineno |-> x.old_lineno, new_lineno |-> x.new_lineno]

\* C27: the lines of all output hunks, in order, are the callback lines of
\* kind Addition, Deletion, Context or end-of-file-newline marker that came
\* from the first hunk's opening on, in stream order; lines that came before
\* any hunk was opened, and lines of any other kind, are in no hunk.  A
\* callback with such a line appends it to the last hunk and changes no
\* other hunk's lines; any other callback changes no hunk's lines.
C27_HunkLinesAreTheStream ==
    /\ [](LET kept == RecognisedLines(SinceFirstHunk(stream))
          IN /\ Len(Flat(hunks)) = Len(kept)
             /\ \A i \in 1..Len(kept) :
                   Numbers(Flat(hunks)[i]) = EngineNumbers(kept[i]))
    /\ [][fed' = fed + 1 =>
            LET cb == stream'[Len(stream')]
            IN IF cb.line.origin \in Recognised /\ hunks' # <<>>
               THEN /\ Len(hunks'[Len(hunks')].lines) > 0
                    /\ Flat(hunks') = Flat(hunks) \o
                          <<hunks'[Len(hunks')].lines[Len(hunks'[Len(hunks')].lines)]>>
                    /\ Numbers(Flat(hunks')[Len(Flat(hunks'))]) = EngineNumbers(cb.line)
                    /\ \A i \in 1..(Len(hunks') - 1) :
                          i <= Len(hunks) /\ hunks'[i].lines = hunks[i].lines
               ELSE Flat(hunks') = Flat(hunks)]_vars

\* C27 witness: a context line that came before any hunk was dropped, and
\* the returned diff has two hunks, one line in the first and none yet in
\* the second.
C27_Witness ==
    /\ file_diff # None
    /\ Len(stream) = MaxCallbacks
    /\ stream[2].hunk = None /\ stream[2].line.origin = "Context"
    /\ Len(hunks) = 2
    /\ Len(hunks[1].lines) = 1 /\ Len(hunks[2].lines) = 0

\* ------------------------------------------------- the anchor's three fields
\* The combination the claim excludes: orphaned, and no context window.
UnanchoredPinned(c) == c.unanchored /\ c.context_window = None

\* C29, as claimed: no comment persisted by save_comment, for any supplied
\* comment, is both orphaned and without a context window.
C29_NoUnanchoredPinned ==
    Succeeded("save") =>
        /\ Persisted # None
        /\ \A i \in 1..Len(Persisted[1]) : ~UnanchoredPinned(Persisted[1][i])

\* --------------------------------------------------------------- anchoring
InitAnchor ==
    /\ cmt \in AnchorComments
    /\ txt \in Texts
    /\ prev = cmt
    /\ applied = FALSE
    /\ InitStore({[dir |-> FALSE, file |-> None]})
    /\ budget = 0
    /\ IdleGit

ReAnchor ==
    /\ ~applied
    /\ cmt' = re_anchor_comment(cmt, txt)
    /\ prev' = cmt
    /\ applied' = TRUE
    /\ UNCHANGED <<txt, svars, gvars>>

NextAnchor == ReAnchor

SpecAnchor == InitAnchor /\ [][NextAnchor]_vars

\* Zero-based indices of the text's lines whose 3-line window is the context.
MatchingLines(text, context) ==
    {k \in 0..(Len(lines(text)) - 1) : ClaimWindow(lines(text), k) = context}
Least(S) == CHOOSE k \in S : \A m \in S : k <= m

\* C5: re-anchoring a comment with a stored context against a text in which
\* some line's 3-line window equals it sets the line to the smallest such
\* zero-based index plus one, marks the comment tracked and keeps the context
\* (and everything else).
C5_FirstMatchingLine ==
    (/\ applied /\ prev.context_window # None
     /\ MatchingLines(txt, prev.context_window[1]) # {})
    =>
    cmt = [prev EXCEPT
             !.line_number = Least(MatchingLines(txt, prev.context_window[1])) + 1,
             !.unanchored = FALSE]

\* C5 witness: an orphaned comment whose context matches two lines of the
\* text, neither of them its last known line.
C5_Witness ==
    /\ applied /\ prev.context_window # None /\ prev.unanchored
    /\ Cardinality(MatchingLines(txt, prev.context_window[1])) = 2
    /\ prev.line_number - 1 \notin MatchingLines(txt, prev.context_window[1])
    /\ prev.line_number > 0
    /\ cmt.line_number # prev.line_number

\* C6: re-anchoring a comment with a stored context against a text in which
\* no line's window equals it marks the comment orphaned and leaves its line
\* number and its context (and everything else) as they were.
C6_NoMatchOrphans ==
    (/\ applied /\ prev.context_window # None
     /\ MatchingLines(txt, prev.context_window[1]) = {})
    =>
    cmt = [prev EXCEPT !.unanchored = TRUE]

\* C6 witness: a tracked comment on line 2 of a text of two lines or more,
\* none of whose windows is its context, became orphaned.
C6_Witness ==
    /\ applied /\ prev.context_window # None /\ ~prev.unanchored
    /\ prev.line_number = 2 /\ Len(lines(txt)) >= 2
    /\ MatchingLines(txt, prev.context_window[1]) = {}
    /\ cmt.unanchored /\ cmt.line_number = 2

\* C7: re-anchoring a comment without a stored context leaves it as it was,
\* whatever the text.
C7_PinnedUnchanged ==
    (applied /\ prev.context_window = None) => cmt = prev

\* C7 witness: a Pinned comment on a line past the end of a non-empty text.
C7_Witness ==
    /\ applied /\ prev.context_window = None /\ ~prev.unanchored
    /\ Len(lines(txt)) >= 1 /\ prev.line_number > Len(lines(txt))
    /\ cmt.line_number = prev.line_number /\ ~cmt.unanchored


\* C28: Orphaned is not terminal.  Re-anchoring an orphaned comment against
\* a text that has its stored window makes it tracked at the first matching
\* line, with the same context; against a text without the window it stays
\* orphaned with the same line and context.  Re-anchoring gives no comment
\* without context a context and takes no comment's context away.
C28_OrphanedCanReturn ==
    applied =>
        /\ (prev.unanchored /\ prev.context_window # None) =>
              IF MatchingLines(txt, prev.context_window[1]) # {}
              THEN /\ ~cmt.unanchored
                   /\ cmt.line_number - 1 \in MatchingLines(txt, prev.context_window[1])
                   /\ \A k \in MatchingLines(txt, prev.context_window[1]) :
                         cmt.line_number - 1 <= k
                   /\ cmt.context_window = prev.context_window
              ELSE /\ cmt.unanchored
                   /\ cmt.line_number = prev.line_number
                   /\ cmt.context_window = prev.context_window
        /\ (prev.context_window = None) <=> (cmt.context_window = None)

\* C28 witness: an orphaned comment last known at line 1 whose window is
\* that of the second line only has come back as tracked at line 2.
C28_Witness ==
    /\ applied /\ prev.unanchored /\ prev.line_number = 1
    /\ prev.context_window # None
    /\ MatchingLines(txt, prev.context_window[1]) = {1}
    /\ ~cmt.unanchored /\ cmt.line_number = 2

\* ------------------------------------------------- tracking through edits
\* A comment is saved against a text, lines are inserted and deleted away
\* from its line, and the comment is re-anchored against the result.
MaxTrackLines == 3

\* Lines of the text saved against, and lines an edit puts in.
LineSet == {<<>>, <<"a">>, <<"b">>}
EditLineSet == {<<>>, <<"a">>}

LinesUpTo(L, n) == UNION {[1..k -> L] : k \in 0..n}

\* The text of these lines, each ended by a newline.
RECURSIVE TextOf(_)
TextOf(ls) ==
    IF ls = <<>> THEN <<>> ELSE Head(ls) \o <<NL>> \o TextOf(Tail(ls))

\* The commented line n with the line above and the line below it.
Kept(ls, n) ==
    SubSeq(ls, IF n > 1 THEN n - 1 ELSE 1, IF n < Len(ls) THEN n + 1 ELSE Len(ls))

InitTrack ==
    /\ \E ls \in LinesUpTo(LineSet, MaxTrackLines) \ {<<>>} :
         \E n \in 1..Len(ls) :
            /\ track = [stage |-> "supplied", old |-> ls, n |-> n,
                        above |-> <<>>, below |-> <<>>]
            /\ cmt = Cmt("c1", GoodPath, "x", n, None, FALSE)
            /\ txt = TextOf(ls)
    /\ prev = cmt
    /\ applied = FALSE
    /\ InitStore({[dir |-> FALSE, file |-> None]})
    /\ budget = 0
    /\ IdleQuery /\ IdleDiff /\ IdleStatus

\* save_comment, lines 78-83, with the text as file_contents
TrackSave ==
    /\ track.stage = "supplied"
    /\ cmt' = prepare_comment(cmt, Some(txt))
    /\ track' = [track EXCEPT !.stage = "saved"]
    /\ UNCHANGED <<txt, prev, applied, svars, qvars, dvars, tvars>>

\* The file is edited: the lines above the kept ones become any lines, and
\* so do the lines below them.
TrackEdit ==
    /\ track.stage = "saved"
    /\ \E a \in LinesUpTo(EditLineSet, MaxTrackLines - 1),
          b \in LinesUpTo(EditLineSet, MaxTrackLines - 1) :
          /\ track' = [track EXCEPT !.stage = "edited", !.above = a, !.below = b]
          /\ txt' = TextOf(a \o Kept(track.old, track.n) \o b)
    /\ UNCHANGED <<cmt, prev, applied, svars, qvars, dvars, tvars>>

\* get_comments_for_file, lines 166-171, for the comment saved
TrackReAnchor ==
    /\ track.stage = "edited"
    /\ cmt' = re_anchor_comment(cmt, txt)
    /\ prev' = cmt
    /\ applied' = TRUE
    /\ track' = [track EXCEPT !.stage = "re-anchored"]
    /\ UNCHANGED <<txt, svars, qvars, dvars, tvars>>

NextTrack == TrackSave \/ TrackEdit \/ TrackReAnchor

SpecTrack == InitTrack /\ [][NextTrack]_vars

\* The 1-based position of the commented line in the edited text.
NewPosition ==
    Len(track.above) + (IF track.n > 1 THEN 2 ELSE 1)

\* The edit is done, the comment re-anchored, and the stored window occurs
\* exactly once in the edited text.
TrackedOnce ==
    /\ track.stage = "re-anchored"
    /\ prev.context_window # None
    /\ Cardinality(MatchingLines(txt, prev.context_window[1])) = 1

\* C23, as claimed: for a comment saved as Tracked on any line n of T, first
\* and last line included, and any T' obtained by inserting or deleting lines
\* other than the commented line and its two neighbours in which the stored
\* window occurs exactly once, re-anchoring against T' yields a tracked
\* comment whose line is the new position of the commented line.
C23_TrackedFollowsEdits ==
    TrackedOnce => ~cmt.unanchored /\ cmt.line_number = NewPosition

\* The commented line is not the first line of T or no line is put above
\* it, and is not the last line of T or no line is put below it.
EndsStay ==
    /\ track.n = 1 => track.above = <<>>
    /\ track.n = Len(track.old) => track.below = <<>>

\* C23, amended: the same, for edits that put no line above a commented
\* first line and no line below a commented last line.
C23_TrackedFollowsEditsInside ==
    (TrackedOnce /\ EndsStay) =>
        /\ ~cmt.unanchored
        /\ cmt.line_number = NewPosition
        /\ cmt.context_window = prev.context_window

\* C23 witness: a comment on the middle line of three, with one line put
\* above the three and one below them, follows its line from 2 to 3.
C23_Witness ==
    /\ TrackedOnce /\ EndsStay
    /\ Len(track.old) = 3 /\ track.n = 2
    /\ Len(track.above) = 1 /\ Len(track.below) = 1
    /\ prev.line_number = 2 /\ cmt.line_number = 3

====
